---- MODULE Spec2Model ----
(***************************************************************************)
(* Model of the labfolio factor-model analysis pipeline.                   *)
(*                                                                         *)
(*   src/api/api.py   analyze_factor_model, __validate_factor_model,       *)
(*                    align_data                                           *)
(*   src/api/mdp.py   DatabaseMDP.get_returns, YahooFinanceMDP.get_returns *)
(*                                                                         *)
(* A return panel (a pandas DataFrame indexed by date) is a record         *)
(*   [cols : set of identifiers, idx : sequence of dates (row order),      *)
(*    nan  : set of <<date, identifier>> cells that hold NaN].             *)
(* A fraction (null_threshold) is a pair <<numerator, denominator>>.       *)
(***************************************************************************)
EXTENDS Integers, Sequences, FiniteSets, TLC

\* ------------------------------------------------------------------ bounds
MaxFactors == 2
MaxHoldings == 2
MaxDates == 11

FactorIds == {"MKT", "SMB"}
Tickers == {"AAPL", "MSFT"}
Dates == 1..MaxDates

\* direct calls of get_returns: panels of at most MaxRows dates, any cell NaN
MaxRows == 3

\* direct calls of align_data: panels of at most MaxAlignDates dates, in any
\* row order
MaxAlignDates == 3

\* pandas keeps a Timestamp as a count of ticks since the epoch; a calendar
\* date d is below one day's ticks, the Timestamp of its midnight is
\* d * DayTicks (seconds here)
DayTicks == 86400

\* null_threshold: float = 0.1, the default both get_returns declare and the
\* value analyze_factor_model uses (it passes no null_threshold).
NullThreshold == <<1, 10>>

\* the thresholds a direct caller of get_returns is modelled to pass
Thresholds == {<<1, 10>>, <<1, 3>>, <<1, 2>>}

VARIABLES
    pc,                 \* position of analyze_factor_model
    factors,            \* request: list of factor identifiers
    holdings,           \* request: holdings_tickers, one ticker per holding line
    valid,              \* outcome of __validate_factor_model, "pending" before it ran
    factor_returns,     \* panel returned by DatabaseMDP.get_returns
    portfolio_returns,  \* panel returned by YahooFinanceMDP.get_returns
    factor_df,          \* aligned factor panel
    portfolio_df,       \* aligned asset panel
    res,                \* result object of LinearFactorModel.fit
    response,           \* what the request answers with
    calls,              \* the stages started so far, in order
    failed_stage,       \* the stage whose exception ended the request
    mdp_call,           \* last direct call of a provider's get_returns
    mdp_ret,            \* the panel that call returned
    al_call,            \* direct call of align_data: its two argument panels
    al_ret,             \* <<factor_data, asset_data>> that call returned
    al_again,           \* align_data applied to the two panels of al_ret
    source,             \* concurrent requests: the store's rows and the feed's prices
    rq,                 \* concurrent requests: the local variables of each request
    cursor,             \* the result set held by the cursor of each open connection
    opened,             \* number of AWSDB objects constructed so far
    ph,                 \* a GET /portfolio/holdings request and what it reads
    rf,                 \* a run of the refresh handler and the factor.returns table
    ac,                 \* POST /account requests and the accounts table
    up,                 \* a POST /portfolio request, the bucket and the two tables
    dash                \* the dashboard's session state and a run_factor_analysis call

vars == <<pc, factors, holdings, valid, factor_returns, portfolio_returns,
          factor_df, portfolio_df, res, response, calls, failed_stage,
          mdp_call, mdp_ret, al_call, al_ret, al_again,
          source, rq, cursor, opened, ph, rf, ac, up, dash>>

pipeline_vars == <<pc, factors, holdings, valid, factor_returns, portfolio_returns,
                   factor_df, portfolio_df, res, response, calls, failed_stage>>

mdp_vars == <<mdp_call, mdp_ret>>

al_vars == <<al_call, al_ret, al_again>>

conc_vars == <<source, rq, cursor, opened>>

ext_vars == <<ph, rf, ac, up, dash>>

\* ----------------------------------------------------------------- helpers
SeqsUpTo(S, n) == UNION {[1..k -> S] : k \in 0..n}

Elems(s) == {s[i] : i \in DOMAIN s}

RECURSIVE SortedSeq(_)
SortedSeq(S) ==
    IF S = {} THEN <<>>
    ELSE LET m == CHOOSE x \in S : \A y \in S : x <= y
         IN <<m>> \o SortedSeq(S \ {m})

EmptyPanel == [cols |-> {}, idx |-> <<>>, nan |-> {}]

\* no response sent yet; res not bound yet
NoResponse == <<>>

NoResult == <<>>

\* no direct call of get_returns made
NoCall == <<>>

\* no concurrent request is being served
NoSource == <<>>

\* the handler this variable belongs to is not running
NoRun == <<>>

\* None where a DataFrame is expected
NoFrame == <<>>

\* ------------------------------------------------- pandas primitives (mdp.py)
\* number of NaN cells of column c
null_count(p, c) == Cardinality({d \in Elems(p.idx) : <<d, c>> \in p.nan})

\* returns.isnull().mean()[c] < null_threshold, on exact fractions:
\* nulls/rows < num/den. A column of a zero-row panel has mean NaN, and
\* NaN < x is False: 0 * den < num * 0 is FALSE as well.
null_pct_lt(p, c, thr) == null_count(p, c) * thr[2] < thr[1] * Len(p.idx)

\* mutant: when no column passes the filter the panel is left as it is
select_cols_all_if_none(p, keep) ==
    IF keep = {} THEN p
    ELSE [cols |-> keep, idx |-> p.idx, nan |-> {x \in p.nan : x[2] \in keep}]

\* returns[cols_to_keep]
select_cols(p, keep) ==
    [cols |-> keep, idx |-> p.idx, nan |-> {x \in p.nan : x[2] \in keep}]

\* mutant: dropna(how='all'), only the rows that are NaN in every column go
dropna_how_all(p) ==
    LET some(d) == p.cols = {} \/ \E c \in p.cols : <<d, c>> \notin p.nan
        kept == SelectSeq(p.idx, some)
    IN [cols |-> p.cols, idx |-> kept,
        nan |-> {x \in p.nan : x[1] \in Elems(kept)}]

\* returns.dropna(): drops every row holding a NaN in some column; a panel
\* without columns keeps all its rows.
dropna(p) ==
    LET full(d) == \A c \in p.cols : <<d, c>> \notin p.nan
        kept == SelectSeq(p.idx, full)
    IN [cols |-> p.cols, idx |-> kept,
        nan |-> {x \in p.nan : x[1] \in Elems(kept)}]

\* prices.pct_change(): price[t]/price[t-1] - 1 by row position. The first
\* row is NaN in every column. pad = TRUE is the pandas default that forward
\* fills the prices first (fill_method='pad'), pad = FALSE the default of the
\* releases that fill nothing.
pct_change(prices, pad) ==
    LET n == Len(prices.idx)
        isnan(i, c) == <<prices.idx[i], c>> \in prices.nan
        filled_nan(i, c) == IF pad THEN \A j \in 1..i : isnan(j, c) ELSE isnan(i, c)
        ret_nan(i, c) == i = 1 \/ filled_nan(i, c) \/ filled_nan(i - 1, c)
    IN [cols |-> prices.cols, idx |-> prices.idx,
        nan |-> {<<prices.idx[ic[1]], ic[2]>> :
                    ic \in {jc \in (1..n) \X prices.cols : ret_nan(jc[1], jc[2])}}]

\* --------------------------------------------------------- providers (mdp.py)
\* mutant: the column filter of this provider keeps a fraction equal to the
\* threshold
YahooFinanceMDP_clean_le(returns, null_threshold) ==
    LET cols_to_keep ==
            {c \in returns.cols :
                null_count(returns, c) * null_threshold[2]
                    <= null_threshold[1] * Len(returns.idx)}
    IN dropna(select_cols(returns, cols_to_keep))

\* YahooFinanceMDP.get_returns, lines 45-59, applied to returns = pct_change
YahooFinanceMDP_clean(returns, null_threshold) ==
    LET cols_to_keep == {c \in returns.cols : null_pct_lt(returns, c, null_threshold)}
    IN dropna(select_cols(returns, cols_to_keep))

YahooFinanceMDP_get_returns(prices, pad, null_threshold) ==
    YahooFinanceMDP_clean(pct_change(prices, pad), null_threshold)

\* mutant: the incomplete rows are dropped before the sparse columns
DatabaseMDP_get_returns_rows_first(pivoted, null_threshold) ==
    LET cols_to_keep == {c \in pivoted.cols : null_pct_lt(pivoted, c, null_threshold)}
    IN select_cols(dropna(pivoted), cols_to_keep)

\* DatabaseMDP.get_returns, lines 110-124, applied to the pivoted query result
DatabaseMDP_get_returns(pivoted, null_threshold) ==
    LET cols_to_keep == {c \in pivoted.cols : null_pct_lt(pivoted, c, null_threshold)}
    IN dropna(select_cols(pivoted, cols_to_keep))

\* What the sources can hold ------------------------------------------------
\* every date x identifier panel over identifiers ids and dates ds, rows
\* ascending, any cell NaN
Panels(ids, ds) ==
    UNION {{[cols |-> C, idx |-> SortedSeq(D), nan |-> N] : N \in SUBSET (D \X C)} :
              C \in SUBSET ids, D \in SUBSET ds}

\* the panels of a one-request window: the identifiers C over the dates D,
\* complete or with one date on which some of the identifiers have no value
WindowPanels(C, D) ==
    {[cols |-> C, idx |-> SortedSeq(D), nan |-> {}]} \cup
    {[cols |-> C, idx |-> SortedSeq(D), nan |-> {d} \X H] :
        d \in D, H \in (SUBSET C) \ {{}}}

\* factor_returns.pivot(index='date', columns='factor_id'): a date or a factor
\* is in the panel because the query returned a row for it (ORDER BY date), so
\* no row and no column is entirely NaN.
Pivoted(p) ==
    /\ \A d \in Elems(p.idx) : \E c \in p.cols : <<d, c>> \notin p.nan
    /\ \A c \in p.cols : \E d \in Elems(p.idx) : <<d, c>> \notin p.nan

\* the store holds the window from its first date up to the last refresh
StorePanels(ids) ==
    {p \in UNION {WindowPanels(C, 1..h) : C \in SUBSET ids, h \in 0..MaxDates} :
        Pivoted(p)}

\* stock_data['Close']: one column per distinct ticker the feed answered for,
\* from the first date the feed has up to the end of the window
FeedPanels(ids) ==
    UNION {WindowPanels(C, l..MaxDates) : C \in SUBSET ids, l \in 1..(MaxDates + 1)}

\* ------------------------------------------------------- validation (api.py)
ErrNoFactors == "No factors selected"
ErrNoHoldings == "No holdings selected"
ErrTooFewHoldings == "There must be at least as many holdings as factors"
ErrDuplicateFactors == "All factors must be unique"

RECURSIVE Unique(_)
Unique(q) ==
    IF q = <<>> THEN <<>>
    ELSE <<Head(q)>> \o SelectSeq(Unique(Tail(q)), LAMBDA x : x # Head(q))

\* mutant: the validator removes repeated factors from the caller's list
validate_lists_after_unique(f, h) == <<Unique(f), h>>

\* the two argument lists after __validate_factor_model has run: it takes
\* len() of both and builds set(factors), and assigns to neither
validate_lists_after(f, h) == <<f, h>>

\* mutant: the uniqueness check is missing
validate_without_uniqueness(f, h) ==
    IF Len(f) = 0 THEN ErrNoFactors
    ELSE IF Len(h) = 0 THEN ErrNoHoldings
    ELSE IF Len(h) < Len(f) THEN ErrTooFewHoldings
    ELSE "ok"

\* mutant: the uniqueness check runs before the holdings count check
validate_uniqueness_first(f, h) ==
    IF Len(f) = 0 THEN ErrNoFactors
    ELSE IF Len(h) = 0 THEN ErrNoHoldings
    ELSE IF Len(f) # Cardinality(Elems(f)) THEN ErrDuplicateFactors
    ELSE IF Len(h) < Len(f) THEN ErrTooFewHoldings
    ELSE "ok"

\* __validate_factor_model: "ok" for return True, else the detail of the
\* HTTPException(status_code=400) it raises
validate_factor_model(f, h) ==
    IF Len(f) = 0 THEN ErrNoFactors
    ELSE IF Len(h) = 0 THEN ErrNoHoldings
    ELSE IF Len(h) < Len(f) THEN ErrTooFewHoldings
    ELSE IF Len(f) # Cardinality(Elems(f)) THEN ErrDuplicateFactors
    ELSE "ok"

\* -------------------------------------------------------- alignment (api.py)
\* pd.to_datetime on one index entry: a datetime.date becomes the Timestamp
\* of its midnight, a Timestamp stays what it is
to_datetime(x) == IF x < DayTicks THEN x * DayTicks ELSE x

\* the calendar date of an index entry (Timestamp.date())
to_date(x) == IF x >= DayTicks THEN x \div DayTicks ELSE x

\* df.copy() followed by copy.index = pd.to_datetime(copy.index)
to_datetime_index(p) ==
    [cols |-> p.cols,
     idx |-> [i \in DOMAIN p.idx |-> to_datetime(p.idx[i])],
     nan |-> {<<to_datetime(x[1]), x[2]>> : x \in p.nan}]

RECURSIVE Reverse(_)
Reverse(q) == IF q = <<>> THEN <<>> ELSE Reverse(Tail(q)) \o <<Head(q)>>

\* mutant: the common dates come in the order of the right index
index_intersection_right_order(a, b) == SelectSeq(b, LAMBDA d : d \in Elems(a))

\* mutant: the common dates come out newest first
index_intersection_reversed(a, b) == Reverse(SelectSeq(a, LAMBDA d : d \in Elems(b)))

\* factor_copy.index.intersection(asset_copy.index): the common dates, in the
\* order of the left index
index_intersection(a, b) == SelectSeq(a, LAMBDA d : d \in Elems(b))

\* mutant: the selected rows have their missing cells filled
loc_rows_filled(p, common) ==
    [cols |-> p.cols, idx |-> common, nan |-> {}]

\* df.loc[common_dates]
loc_rows(p, common) ==
    [cols |-> p.cols, idx |-> common,
     nan |-> {x \in p.nan : x[1] \in Elems(common)}]

\* mutant: the panels are re-indexed to the union of the two indices, the
\* cells of the added dates being NaN
align_data_union(f, a) ==
    LET factor_copy == to_datetime_index(f)
        asset_copy == to_datetime_index(a)
        common_dates == factor_copy.idx \o
                        SelectSeq(asset_copy.idx, LAMBDA d : d \notin Elems(factor_copy.idx))
        widen(p) == [cols |-> p.cols, idx |-> common_dates,
                     nan |-> p.nan \cup ((Elems(common_dates) \ Elems(p.idx)) \X p.cols)]
    IN <<widen(factor_copy), widen(asset_copy)>>

\* mutant: only the factor panel is cut down to the common dates
align_data_asset_untouched(f, a) ==
    LET factor_copy == to_datetime_index(f)
        asset_copy == to_datetime_index(a)
        common_dates == index_intersection(factor_copy.idx, asset_copy.idx)
    IN <<loc_rows(factor_copy, common_dates), asset_copy>>

\* align_data: <<factor_data, asset_data>>
align_data(f, a) ==
    LET factor_copy == to_datetime_index(f)
        asset_copy == to_datetime_index(a)
        common_dates == index_intersection(factor_copy.idx, asset_copy.idx)
    IN <<loc_rows(factor_copy, common_dates), loc_rows(asset_copy, common_dates)>>

\* ------------------------------------------------------- estimation (api.py)
\* LinearFactorModel(portfolios=portfolio_df, factors=factor_df).fit() at
\* api.py 574-575. The estimator is the linearmodels library; what the
\* pipeline depends on is when that call raises. It raises when there are
\* fewer test portfolios than factors, when there are fewer than
\* factors + 1 observations (so always on a zero-row panel), and when the
\* data are numerically unfit (a constant column, collinear factors), which
\* depends on the values and is the input numeric_failure.
\* mutant: numerically unfit data are fitted all the same
LinearFactorModel_raises_on_shape_only(portfolio, factor, numeric_failure) ==
    \/ Cardinality(portfolio.cols) < Cardinality(factor.cols)
    \/ Len(factor.idx) < Cardinality(factor.cols) + 1

LinearFactorModel_raises(portfolio, factor, numeric_failure) ==
    \/ Cardinality(portfolio.cols) < Cardinality(factor.cols)
    \/ Len(factor.idx) < Cardinality(factor.cols) + 1
    \/ numeric_failure

\* the result object: params has one row per portfolio, cov and risk_premia
\* one entry per factor; rsquared and j_statistic.stat are numbers of the
\* estimator, kept as tokens
LinearFactorModel_fit(portfolio, factor) ==
    [params |-> portfolio.cols, risk_premia |-> factor.cols, cov |-> factor.cols,
     rsquared |-> "rsquared", j_statistic |-> "j_statistic.stat"]

\* --------------------------------------------- analyze_factor_model (api.py)
ErrFetchFactors == "Error fetching factor data"
ErrFetchPortfolio == "Error fetching portfolio data"
ErrAlign == "Error aligning data"
ErrFit == "Error fitting factor model"
ErrPackage == "Error performing factor analysis"

\* the stages in the order the handler's body lists them
StageOrder == <<"validate", "fetch_factors", "fetch_assets", "align", "fit", "package">>

StageIndex(stage) == CHOOSE i \in DOMAIN StageOrder : StageOrder[i] = stage

\* mutant: the outcome of validation is not looked at
next_pc_validation_ignored(stage, raised) ==
    IF stage = "validate" THEN "fetch_factors"
    ELSE IF raised \/ StageIndex(stage) = Len(StageOrder) THEN "done"
    ELSE StageOrder[StageIndex(stage) + 1]

\* mutant: the market-data feed is asked before the factor store
next_pc_feed_first(stage, raised) ==
    IF raised \/ stage = "package" THEN "done"
    ELSE CASE stage = "validate"      -> "fetch_assets"
           [] stage = "fetch_assets"  -> "fetch_factors"
           [] stage = "fetch_factors" -> "align"
           [] stage = "align"         -> "fit"
           [] stage = "fit"           -> "package"

\* mutant: an except clause logs the exception and falls through
next_pc_failure_swallowed(stage, raised) ==
    IF StageIndex(stage) = Len(StageOrder) THEN "done"
    ELSE StageOrder[StageIndex(stage) + 1]

\* mutant: a failed fetch or fit is attempted again
next_pc_retry(stage, raised) ==
    IF raised /\ stage \in {"fetch_factors", "fetch_assets", "fit"} THEN stage
    ELSE IF raised \/ StageIndex(stage) = Len(StageOrder) THEN "done"
    ELSE StageOrder[StageIndex(stage) + 1]

\* where the handler goes after a stage: every stage is a statement or try
\* block whose except clause raises HTTPException, so an exception ends the
\* request and a normal completion falls through to the next block.
next_pc(stage, raised) ==
    IF raised \/ StageIndex(stage) = Len(StageOrder) THEN "done"
    ELSE StageOrder[StageIndex(stage) + 1]

\* mutant: the alignment except clause reuses the message of the fit stage
error_response_align_as_fit(stage, v) ==
    CASE stage = "validate"      -> [code |-> 400, detail |-> v]
      [] stage = "fetch_factors" -> [code |-> 500, detail |-> ErrFetchFactors]
      [] stage = "fetch_assets"  -> [code |-> 500, detail |-> ErrFetchPortfolio]
      [] stage = "align"         -> [code |-> 500, detail |-> ErrFit]
      [] stage = "fit"           -> [code |-> 500, detail |-> ErrFit]
      [] stage = "package"       -> [code |-> 500, detail |-> ErrPackage]

\* the HTTPException each stage's failure is turned into; v is the detail the
\* validator raised with. The except clauses append str(e), the text of the
\* exception caught, to the prefix modelled here.
error_response(stage, v) ==
    CASE stage = "validate"      -> [code |-> 400, detail |-> v]
      [] stage = "fetch_factors" -> [code |-> 500, detail |-> ErrFetchFactors]
      [] stage = "fetch_assets"  -> [code |-> 500, detail |-> ErrFetchPortfolio]
      [] stage = "align"         -> [code |-> 500, detail |-> ErrAlign]
      [] stage = "fit"           -> [code |-> 500, detail |-> ErrFit]
      [] stage = "package"       -> [code |-> 500, detail |-> ErrPackage]

\* mutant: the asset count is taken from the risk premia, one per factor
success_response_assets_from_premia(r, f_df) ==
    [code |-> 200, status |-> "success",
     analysis |-> [statistics |-> [no_factors |-> Cardinality(f_df.cols),
                                   no_assets |-> Cardinality(r.risk_premia),
                                   no_observations |-> Len(f_df.idx),
                                   r_squared |-> r.rsquared,
                                   j_statistic |-> r.j_statistic],
                   covariance_matrix |-> r.cov,
                   params |-> r.params,
                   risk_premia |-> r.risk_premia,
                   timestamp |-> "str(datetime.datetime.now())"]]

\* the response dict built at lines 592-607, with model_no_assets =
\* len(res.params) and model_no_factors = len(factor_df.columns) of lines
\* 577-578; the timestamp is the clock's reading, kept as a token
success_response(r, f_df) ==
    [code |-> 200, status |-> "success",
     analysis |-> [statistics |-> [no_factors |-> Cardinality(f_df.cols),
                                   no_assets |-> Cardinality(r.params),
                                   no_observations |-> Len(f_df.idx),
                                   r_squared |-> r.rsquared,
                                   j_statistic |-> r.j_statistic],
                   covariance_matrix |-> r.cov,
                   params |-> r.params,
                   risk_premia |-> r.risk_premia,
                   timestamp |-> "str(datetime.datetime.now())"]]

\* common tail of a stage: log it, move on or end with the stage's error
Finish(stage, raised, v) ==
    /\ calls' = Append(calls, stage)
    /\ pc' = next_pc(stage, raised)
    /\ IF raised
       THEN /\ response' = error_response(stage, v)
            /\ failed_stage' = stage
       ELSE /\ failed_stage' = failed_stage
            /\ IF stage = "package"
               THEN response' = success_response(res, factor_df)
               ELSE response' = response

Init ==
    /\ pc = "validate"
    /\ factors \in SeqsUpTo(FactorIds, MaxFactors)
    /\ holdings \in SeqsUpTo(Tickers, MaxHoldings)
    /\ valid = "pending"
    /\ factor_returns = EmptyPanel
    /\ portfolio_returns = EmptyPanel
    /\ factor_df = EmptyPanel
    /\ portfolio_df = EmptyPanel
    /\ res = NoResult
    /\ response = NoResponse
    /\ calls = <<>>
    /\ failed_stage = "none"
    /\ mdp_call = NoCall
    /\ mdp_ret = EmptyPanel
    /\ al_call = NoCall
    /\ al_ret = <<EmptyPanel, EmptyPanel>>
    /\ al_again = <<EmptyPanel, EmptyPanel>>
    /\ source = NoSource
    /\ rq = <<>>
    /\ cursor = <<>>
    /\ opened = 0
    /\ ph = NoRun
    /\ rf = NoRun
    /\ ac = NoRun
    /\ up = NoRun
    /\ dash = NoRun

\* lines 519-523
Validate ==
    /\ pc = "validate"
    /\ valid' = validate_factor_model(factors, holdings)
    /\ factors' = validate_lists_after(factors, holdings)[1]
    /\ holdings' = validate_lists_after(factors, holdings)[2]
    /\ Finish("validate", valid' # "ok", valid')
    /\ UNCHANGED <<factor_returns, portfolio_returns,
                   factor_df, portfolio_df, res, mdp_vars, al_vars, conc_vars, ext_vars>>

\* lines 530-538: get_db_connection, DatabaseMDP(db).get_returns(factors, ...)
FetchFactors ==
    /\ pc = "fetch_factors"
    /\ \/ /\ factor_returns' = factor_returns
          /\ Finish("fetch_factors", TRUE, "")
       \/ \E pivoted \in StorePanels(Elems(factors)) :
             /\ factor_returns' = DatabaseMDP_get_returns(pivoted, NullThreshold)
             /\ Finish("fetch_factors", FALSE, "")
    /\ UNCHANGED <<factors, holdings, valid, portfolio_returns,
                   factor_df, portfolio_df, res, mdp_vars, al_vars, conc_vars, ext_vars>>

\* lines 540-547: YahooFinanceMDP().get_returns(holdings_tickers, ...)
FetchAssets ==
    /\ pc = "fetch_assets"
    /\ \/ /\ portfolio_returns' = portfolio_returns
          /\ Finish("fetch_assets", TRUE, "")
       \/ \E pad \in BOOLEAN, prices \in FeedPanels(Elems(holdings)) :
             /\ portfolio_returns' = YahooFinanceMDP_get_returns(prices, pad, NullThreshold)
             /\ Finish("fetch_assets", FALSE, "")
    /\ UNCHANGED <<factors, holdings, valid, factor_returns,
                   factor_df, portfolio_df, res, mdp_vars, al_vars, conc_vars, ext_vars>>

\* lines 553-561
Align ==
    /\ pc = "align"
    /\ \E raised \in BOOLEAN :
          /\ factor_df' = IF raised THEN factor_df
                          ELSE align_data(factor_returns, portfolio_returns)[1]
          /\ portfolio_df' = IF raised THEN portfolio_df
                             ELSE align_data(factor_returns, portfolio_returns)[2]
          /\ Finish("align", raised, "")
    /\ UNCHANGED <<factors, holdings, valid, factor_returns, portfolio_returns,
                   res, mdp_vars, al_vars, conc_vars, ext_vars>>

\* lines 571-588
Fit ==
    /\ pc = "fit"
    /\ \E numeric_failure \in BOOLEAN :
          LET raised == LinearFactorModel_raises(portfolio_df, factor_df, numeric_failure)
          IN /\ res' = IF raised THEN res
                       ELSE LinearFactorModel_fit(portfolio_df, factor_df)
             /\ Finish("fit", raised, "")
    /\ UNCHANGED <<factors, holdings, valid, factor_returns, portfolio_returns,
                   factor_df, portfolio_df, mdp_vars, al_vars, conc_vars, ext_vars>>

\* lines 590-613
Package ==
    /\ pc = "package"
    /\ \E raised \in BOOLEAN : Finish("package", raised, "")
    /\ UNCHANGED <<factors, holdings, valid, factor_returns, portfolio_returns,
                   factor_df, portfolio_df, res, mdp_vars, al_vars, conc_vars, ext_vars>>

Next == Validate \/ FetchFactors \/ FetchAssets \/ Align \/ Fit \/ Package

Spec == Init /\ [][Next]_vars

\* ------------------------------------- direct calls of get_returns (mdp.py)
InitMDP ==
    /\ pc = "idle"
    /\ factors = <<>>
    /\ holdings = <<>>
    /\ valid = "pending"
    /\ factor_returns = EmptyPanel
    /\ portfolio_returns = EmptyPanel
    /\ factor_df = EmptyPanel
    /\ portfolio_df = EmptyPanel
    /\ res = NoResult
    /\ response = NoResponse
    /\ calls = <<>>
    /\ failed_stage = "none"
    /\ mdp_call = NoCall
    /\ mdp_ret = EmptyPanel
    /\ al_call = NoCall
    /\ al_ret = <<EmptyPanel, EmptyPanel>>
    /\ al_again = <<EmptyPanel, EmptyPanel>>
    /\ source = NoSource
    /\ rq = <<>>
    /\ cursor = <<>>
    /\ opened = 0
    /\ ph = NoRun
    /\ rf = NoRun
    /\ ac = NoRun
    /\ up = NoRun
    /\ dash = NoRun

\* DatabaseMDP(db).get_returns(tickers, ..., null_threshold); raw is the panel
\* the column filter reads (the pivoted query result)
CallDatabaseMDP ==
    /\ mdp_call = NoCall
    /\ \E thr \in Thresholds :
       \E pivoted \in {p \in Panels(FactorIds, 1..MaxRows) : Pivoted(p)} :
          /\ mdp_call' = [provider |-> "DatabaseMDP", raw |-> pivoted,
                          null_threshold |-> thr]
          /\ mdp_ret' = DatabaseMDP_get_returns(pivoted, thr)
    /\ UNCHANGED <<pipeline_vars, al_vars, conc_vars, ext_vars>>

\* YahooFinanceMDP().get_returns(tickers, ..., null_threshold); raw is the
\* panel the column filter reads (returns = prices.pct_change())
CallYahooFinanceMDP ==
    /\ mdp_call = NoCall
    /\ \E thr \in Thresholds, pad \in BOOLEAN :
       \E prices \in Panels(Tickers, 1..MaxRows) :
          /\ mdp_call' = [provider |-> "YahooFinanceMDP", raw |-> pct_change(prices, pad),
                          null_threshold |-> thr]
          /\ mdp_ret' = YahooFinanceMDP_get_returns(prices, pad, thr)
    /\ UNCHANGED <<pipeline_vars, al_vars, conc_vars, ext_vars>>

NextMDP == CallDatabaseMDP \/ CallYahooFinanceMDP

SpecMDP == InitMDP /\ [][NextMDP]_vars

\* ----------------------------------------- direct calls of align_data (api.py)
\* the row orders of the dates D
RowOrders(D) ==
    {q \in [1..Cardinality(D) -> D] : \A i, j \in DOMAIN q : i # j => q[i] # q[j]}

\* duplicate-free panels of one column, rows in any order, at most one cell NaN
AlignPanels(id) ==
    UNION {{[cols |-> {id}, idx |-> q, nan |-> N] :
               q \in RowOrders(D), N \in {{}} \cup {{<<d, id>>} : d \in D}} :
           D \in SUBSET (1..MaxAlignDates)}

InitAlign ==
    /\ pc = "idle"
    /\ factors = <<>>
    /\ holdings = <<>>
    /\ valid = "pending"
    /\ factor_returns = EmptyPanel
    /\ portfolio_returns = EmptyPanel
    /\ factor_df = EmptyPanel
    /\ portfolio_df = EmptyPanel
    /\ res = NoResult
    /\ response = NoResponse
    /\ calls = <<>>
    /\ failed_stage = "none"
    /\ mdp_call = NoCall
    /\ mdp_ret = EmptyPanel
    /\ al_call = NoCall
    /\ al_ret = <<EmptyPanel, EmptyPanel>>
    /\ al_again = <<EmptyPanel, EmptyPanel>>
    /\ source = NoSource
    /\ rq = <<>>
    /\ cursor = <<>>
    /\ opened = 0
    /\ ph = NoRun
    /\ rf = NoRun
    /\ ac = NoRun
    /\ up = NoRun
    /\ dash = NoRun

\* align_data(factor_df, asset_df), then align_data on what it returned
CallAlign ==
    /\ al_call = NoCall
    /\ \E f \in AlignPanels("MKT"), a \in AlignPanels("AAPL") :
          /\ al_call' = [factor |-> f, asset |-> a]
          /\ al_ret' = align_data(f, a)
          /\ al_again' = align_data(al_ret'[1], al_ret'[2])
    /\ UNCHANGED <<pipeline_vars, mdp_vars, conc_vars, ext_vars>>

NextAlign == CallAlign

SpecAlign == InitAlign /\ [][NextAlign]_vars

\* --------------------------- concurrent analyze_factor_model requests (api.py)
Requests == {"r1", "r2"}

\* db is not bound before line 533
NoConn == 0

\* a store refreshed only up to the third date of the window: two dates are
\* common with the feed's returns
ShortStore == 3

\* the data the requests read, which no request writes: the rows of
\* factor.returns (complete, up to the last refresh), the closing prices of the
\* feed (complete over the window), the tickers whose series is constant
\* (a panel with such a column is numerically unfit for the estimator), and
\* whether the stored factors are perfectly collinear (SMB = 2 x MKT)
Sources ==
    {[store |-> s, feed |-> p, constant |-> K, collinear |-> b] :
        s \in {x \in StorePanels(FactorIds) :
                 x.cols = FactorIds /\ x.nan = {} /\ Len(x.idx) \in {1, ShortStore, MaxDates}},
        p \in {x \in FeedPanels(Tickers) :
                 x.cols = Tickers /\ x.nan = {} /\ Len(x.idx) = MaxDates},
        K \in {{}, {"MSFT"}},
        b \in BOOLEAN}

\* the holdings lists the concurrent requests come with
RequestHoldings == {<<>>, <<"AAPL">>, <<"AAPL", "MSFT">>}

\* the local variables of a request that has just been received
NewRequest(f, h) ==
    [pc |-> "validate", factors |-> f, holdings |-> h, valid |-> "pending",
     db |-> NoConn,
     factor_returns |-> EmptyPanel, portfolio_returns |-> EmptyPanel,
     factor_df |-> EmptyPanel, portfolio_df |-> EmptyPanel,
     res |-> NoResult, response |-> NoResponse]

\* mutant: one module-level AWSDB object serves every request
get_db_connection_shared(n) == 1

\* get_db_connection: every call constructs an AWSDB, a connection of its
\* own; n objects exist already
get_db_connection(n) == n + 1

\* the query of DatabaseMDP.get_returns, pivoted: the rows of the factors
\* asked for (of every factor when the list is empty), a date or a factor
\* being present when a row of it is
select_returns(store, ids) ==
    LET has(d, c) == <<d, c>> \notin store.nan
        C == {c \in store.cols :
                /\ ids # {} => c \in ids
                /\ \E d \in Elems(store.idx) : has(d, c)}
        D == SelectSeq(store.idx, LAMBDA d : \E c \in C : has(d, c))
    IN [cols |-> C, idx |-> D,
        nan |-> {x \in store.nan : x[1] \in Elems(D) /\ x[2] \in C}]

\* yf.download(tickers, start, end)['Close']
download_close(feed, ids) ==
    [cols |-> feed.cols \cap ids, idx |-> feed.idx,
     nan |-> {x \in feed.nan : x[2] \in ids}]

\* the fit is numerically unfit when a constant series is among the assets
\* or the two collinear factors are both among the factors
numeric_failure_of(portfolio, factor, src) ==
    \/ portfolio.cols \cap src.constant # {}
    \/ src.collinear /\ FactorIds \subseteq factor.cols

InitConc ==
    /\ pc = "idle"
    /\ factors = <<>>
    /\ holdings = <<>>
    /\ valid = "pending"
    /\ factor_returns = EmptyPanel
    /\ portfolio_returns = EmptyPanel
    /\ factor_df = EmptyPanel
    /\ portfolio_df = EmptyPanel
    /\ res = NoResult
    /\ response = NoResponse
    /\ calls = <<>>
    /\ failed_stage = "none"
    /\ mdp_call = NoCall
    /\ mdp_ret = EmptyPanel
    /\ al_call = NoCall
    /\ al_ret = <<EmptyPanel, EmptyPanel>>
    /\ al_again = <<EmptyPanel, EmptyPanel>>
    /\ source \in Sources
    /\ rq \in [Requests -> {NewRequest(f, h) : f \in SeqsUpTo(FactorIds, MaxFactors),
                                               h \in RequestHoldings}]
    /\ cursor = <<>>
    /\ opened = 0
    /\ ph = NoRun
    /\ rf = NoRun
    /\ ac = NoRun
    /\ up = NoRun
    /\ dash = NoRun

\* lines 519-523
ConcValidate(i) ==
    /\ rq[i].pc = "validate"
    /\ LET v == validate_factor_model(rq[i].factors, rq[i].holdings)
           after == validate_lists_after(rq[i].factors, rq[i].holdings)
       IN rq' = [rq EXCEPT ![i] =
                    [@ EXCEPT !.valid = v,
                              !.factors = after[1],
                              !.holdings = after[2],
                              !.pc = next_pc("validate", v # "ok"),
                              !.response = IF v # "ok" THEN error_response("validate", v)
                                           ELSE @]]
    /\ UNCHANGED <<ext_vars, pipeline_vars, mdp_vars, al_vars, source, cursor, opened>>

\* line 533, db.py 9-30: db = get_db_connection(); the new object's cursor has
\* run the connection test and holds no rows
ConcConnect(i) ==
    /\ rq[i].pc = "fetch_factors"
    /\ LET c == get_db_connection(opened)
       IN /\ rq' = [rq EXCEPT ![i] = [@ EXCEPT !.db = c, !.pc = "execute"]]
          /\ cursor' = [x \in DOMAIN cursor \cup {c} |->
                           IF x = c THEN EmptyPanel ELSE cursor[x]]
    /\ opened' = opened + 1
    /\ UNCHANGED <<ext_vars, pipeline_vars, mdp_vars, al_vars, source>>

\* mdp.py 75-89: self.db.cursor.execute(query, ...)
ConcExecute(i) ==
    /\ rq[i].pc = "execute"
    /\ cursor' = [cursor EXCEPT ![rq[i].db] =
                     select_returns(source.store, Elems(rq[i].factors))]
    /\ rq' = [rq EXCEPT ![i] = [@ EXCEPT !.pc = "fetchall"]]
    /\ UNCHANGED <<ext_vars, pipeline_vars, mdp_vars, al_vars, source, opened>>

\* mdp.py 92-124: rows = self.db.cursor.fetchall() takes the rows off the
\* cursor; pivot, clean, return
ConcFetchall(i) ==
    /\ rq[i].pc = "fetchall"
    /\ rq' = [rq EXCEPT ![i] =
                 [@ EXCEPT !.factor_returns =
                               DatabaseMDP_get_returns(cursor[rq[i].db], NullThreshold),
                           !.pc = next_pc("fetch_factors", FALSE)]]
    /\ cursor' = [cursor EXCEPT ![rq[i].db] = EmptyPanel]
    /\ UNCHANGED <<ext_vars, pipeline_vars, mdp_vars, al_vars, source, opened>>

\* lines 540-547
ConcFetchAssets(i) ==
    /\ rq[i].pc = "fetch_assets"
    /\ rq' = [rq EXCEPT ![i] =
                 [@ EXCEPT !.portfolio_returns =
                               YahooFinanceMDP_get_returns(
                                   download_close(source.feed, Elems(rq[i].holdings)),
                                   FALSE, NullThreshold),
                           !.pc = next_pc("fetch_assets", FALSE)]]
    /\ UNCHANGED <<ext_vars, pipeline_vars, mdp_vars, al_vars, source, cursor, opened>>

\* lines 553-561
ConcAlign(i) ==
    /\ rq[i].pc = "align"
    /\ LET aligned == align_data(rq[i].factor_returns, rq[i].portfolio_returns)
       IN rq' = [rq EXCEPT ![i] =
                    [@ EXCEPT !.factor_df = aligned[1],
                              !.portfolio_df = aligned[2],
                              !.pc = next_pc("align", FALSE)]]
    /\ UNCHANGED <<ext_vars, pipeline_vars, mdp_vars, al_vars, source, cursor, opened>>

\* lines 571-588
ConcFit(i) ==
    /\ rq[i].pc = "fit"
    /\ LET raised == LinearFactorModel_raises(
                         rq[i].portfolio_df, rq[i].factor_df,
                         numeric_failure_of(rq[i].portfolio_df, rq[i].factor_df, source))
       IN rq' = [rq EXCEPT ![i] =
                    [@ EXCEPT !.res = IF raised THEN @
                                      ELSE LinearFactorModel_fit(rq[i].portfolio_df,
                                                                 rq[i].factor_df),
                              !.response = IF raised THEN error_response("fit", "")
                                           ELSE @,
                              !.pc = next_pc("fit", raised)]]
    /\ UNCHANGED <<ext_vars, pipeline_vars, mdp_vars, al_vars, source, cursor, opened>>

\* lines 590-613
ConcPackage(i) ==
    /\ rq[i].pc = "package"
    /\ rq' = [rq EXCEPT ![i] =
                 [@ EXCEPT !.response = success_response(rq[i].res, rq[i].factor_df),
                           !.pc = next_pc("package", FALSE)]]
    /\ UNCHANGED <<ext_vars, pipeline_vars, mdp_vars, al_vars, source, cursor, opened>>

NextConc ==
    \E i \in Requests :
        \/ ConcValidate(i)
        \/ ConcConnect(i)
        \/ ConcExecute(i)
        \/ ConcFetchall(i)
        \/ ConcFetchAssets(i)
        \/ ConcAlign(i)
        \/ ConcFit(i)
        \/ ConcPackage(i)

SpecConc == InitConc /\ [][NextConc]_vars

\* every variable of the analysis endpoint and of the direct calls is idle
NoAnalysis ==
    /\ pc = "idle"
    /\ factors = <<>>
    /\ holdings = <<>>
    /\ valid = "pending"
    /\ factor_returns = EmptyPanel
    /\ portfolio_returns = EmptyPanel
    /\ factor_df = EmptyPanel
    /\ portfolio_df = EmptyPanel
    /\ res = NoResult
    /\ response = NoResponse
    /\ calls = <<>>
    /\ failed_stage = "none"
    /\ mdp_call = NoCall
    /\ mdp_ret = EmptyPanel
    /\ al_call = NoCall
    /\ al_ret = <<EmptyPanel, EmptyPanel>>
    /\ al_again = <<EmptyPanel, EmptyPanel>>
    /\ source = NoSource
    /\ rq = <<>>
    /\ cursor = <<>>
    /\ opened = 0

analysis_vars == <<pipeline_vars, mdp_vars, al_vars, conc_vars>>

\* ------------------------------------------- GET /portfolio/holdings (api.py)
ErrPortfolioNotFound == "Portfolio not found"
ErrFetchHoldings == "Error fetching portfolio holdings"

\* the CSV object at the portfolio's key: absent, or a table of holdings rows
\* that PortfolioHolding accepts or not
Objects ==
    {[present |-> FALSE, rows |-> <<>>, well_formed |-> TRUE]} \cup
    {[present |-> TRUE, rows |-> q, well_formed |-> w] :
        q \in SeqsUpTo(Tickers, MaxHoldings), w \in BOOLEAN}

\* get_portfolio_holdings, lines 251-264: the body is one try block whose
\* except Exception clause answers 500; the HTTPException(404) raised at line
\* 254 is raised inside that block and HTTPException is an Exception, so it
\* is caught there as well (its text becomes part of the 500 detail)
holdings_response(df) ==
    LET raised_in_try == df = NoFrame \/ ~df.well_formed
    IN IF raised_in_try THEN [code |-> 500, detail |-> ErrFetchHoldings]
       ELSE [code |-> 200, holdings |-> df.rows]

InitHoldings ==
    /\ NoAnalysis
    /\ ph \in {[pc |-> "lookup", registered |-> g, object |-> o,
                db_fails |-> d, s3_fails |-> f, df |-> NoFrame, response |-> NoResponse] :
                  g \in BOOLEAN, o \in Objects, d \in BOOLEAN, f \in BOOLEAN}
    /\ rf = NoRun
    /\ ac = NoRun
    /\ up = NoRun
    /\ dash = NoRun

\* get_portfolio_df lines 96-105: connect, look the address up; an exception
\* or no row returns None
PhLookup ==
    /\ ph # NoRun
    /\ ph.pc = "lookup"
    /\ ph' = [ph EXCEPT !.pc = IF ph.db_fails \/ ~ph.registered THEN "respond" ELSE "read"]
    /\ UNCHANGED <<analysis_vars, rf, ac, up, dash>>

\* get_portfolio_df lines 107-124: read the CSV; an exception, or read_csv
\* returning None for a key that cannot be read, returns None
PhRead ==
    /\ ph # NoRun
    /\ ph.pc = "read"
    /\ ph' = [ph EXCEPT !.pc = "respond",
                        !.df = IF ph.s3_fails \/ ~ph.object.present THEN NoFrame
                               ELSE [rows |-> ph.object.rows,
                                     well_formed |-> ph.object.well_formed]]
    /\ UNCHANGED <<analysis_vars, rf, ac, up, dash>>

\* get_portfolio_holdings lines 251-264
PhRespond ==
    /\ ph # NoRun
    /\ ph.pc = "respond"
    /\ ph' = [ph EXCEPT !.pc = "done", !.response = holdings_response(ph.df)]
    /\ UNCHANGED <<analysis_vars, rf, ac, up, dash>>

NextHoldings == PhLookup \/ PhRead \/ PhRespond

SpecHoldings == InitHoldings /\ [][NextHoldings]_vars

\* --------------------------------------------- refresh handler (lambda/app.py)
\* the rows of one factor in factor.returns, as the set of their dates
OldRows == {1, 2}
NewRows == {2, 3}

\* the factor_ids get_factors can return: factor_id is the key of
\* factor.factors, so no id comes twice
FactorLists ==
    {q \in SeqsUpTo(FactorIds, MaxFactors) : \A i, j \in DOMAIN q : i # j => q[i] # q[j]}

\* mutant: the existing rows are cleared before the new data is fetched
factor_steps_clear_first == <<"clear", "fetch", "clean", "upload">>

\* the statements of the loop body, lines 91-108, in order
factor_steps == <<"fetch", "clean", "clear", "upload">>

StepIndex(step) == CHOOSE k \in DOMAIN factor_steps : factor_steps[k] = step

\* the loop moves to the next factor_id, or leaves the loop
next_factor(todo) == IF Len(todo) > 1 THEN factor_steps[1] ELSE "finish"

\* conn.commit(): what the open transaction holds becomes part of the table
commit(table, pending) ==
    [f \in DOMAIN table |-> table[f] \cup {x[2] : x \in {y \in pending : y[1] = f}}]

\* a statement of factor f has completed
RfStepDone(step, r) ==
    IF StepIndex(step) = Len(factor_steps)
    THEN [r EXCEPT !.pc = next_factor(rf.todo), !.todo = Tail(rf.todo),
                   !.progress[Head(rf.todo)] = step,
                   !.returns = NoFrame, !.success = @ + 1]
    ELSE [r EXCEPT !.pc = factor_steps[StepIndex(step) + 1],
                   !.progress[Head(rf.todo)] = step]

\* a statement of factor f has raised: except ... continue (lines 109-111)
RfStepFailed(step, r) ==
    [r EXCEPT !.pc = next_factor(rf.todo), !.todo = Tail(rf.todo),
              !.failed[Head(rf.todo)] = step]

InitRefresh ==
    /\ NoAnalysis
    /\ ph = NoRun
    /\ rf \in {[pc |-> "connect", listed |-> q, todo |-> <<>>,
                before |-> b, table |-> b, feed |-> n,
                pending |-> {}, tx_failed |-> FALSE, returns |-> NoFrame,
                progress |-> [f \in FactorIds |-> "none"],
                failed |-> [f \in FactorIds |-> "none"],
                injected |-> {}, success |-> 0, response |-> NoResponse] :
                  q \in FactorLists,
                  b \in [FactorIds -> {{}, OldRows}],
                  n \in [FactorIds -> {{}, NewRows}]}
    /\ ac = NoRun
    /\ up = NoRun
    /\ dash = NoRun

\* lines 64-74
RfConnect ==
    /\ rf # NoRun
    /\ rf.pc = "connect"
    /\ \E raised \in BOOLEAN :
          rf' = IF raised THEN [rf EXCEPT !.pc = "done", !.response = [statusCode |-> 500]]
                ELSE [rf EXCEPT !.pc = "get_factors"]
    /\ UNCHANGED <<analysis_vars, ph, ac, up, dash>>

\* lines 76-87
RfGetFactors ==
    /\ rf # NoRun
    /\ rf.pc = "get_factors"
    /\ \E raised \in BOOLEAN :
          rf' = IF raised THEN [rf EXCEPT !.pc = "done", !.response = [statusCode |-> 500]]
                ELSE [rf EXCEPT !.todo = rf.listed,
                                !.pc = IF rf.listed = <<>> THEN "finish"
                                       ELSE factor_steps[1]]
    /\ UNCHANGED <<analysis_vars, ph, ac, up, dash>>

\* line 94: returns = fetch_market_data(factor_id, start_date, end_date)
RfFetch ==
    /\ rf # NoRun
    /\ rf.pc = "fetch"
    /\ \E raised \in BOOLEAN :
          rf' = IF raised
                THEN RfStepFailed("fetch", [rf EXCEPT !.injected = @ \cup {Head(rf.todo)}])
                ELSE RfStepDone("fetch", [rf EXCEPT !.returns = [rows |-> rf.feed[Head(rf.todo)]]])
    /\ UNCHANGED <<analysis_vars, ph, ac, up, dash>>

\* line 97: returns = clean_market_data(returns)
RfClean ==
    /\ rf # NoRun
    /\ rf.pc = "clean"
    /\ \E raised \in BOOLEAN :
          rf' = IF raised \/ rf.returns = NoFrame
                THEN RfStepFailed("clean", [rf EXCEPT !.injected =
                                               IF raised THEN @ \cup {Head(rf.todo)} ELSE @])
                ELSE RfStepDone("clean", rf)
    /\ UNCHANGED <<analysis_vars, ph, ac, up, dash>>

\* line 100, clear_returns: DELETE ... ; conn.commit(). A statement on a
\* connection whose transaction has failed raises; a statement the server
\* refuses leaves the transaction failed, the handler never rolls back
RfClear ==
    /\ rf # NoRun
    /\ rf.pc = "clear"
    /\ \E raised \in BOOLEAN :
          LET f == Head(rf.todo)
          IN rf' = IF rf.tx_failed THEN RfStepFailed("clear", rf)
                   ELSE IF raised
                   THEN RfStepFailed("clear", [rf EXCEPT !.injected = @ \cup {f},
                                                         !.tx_failed = TRUE])
                   ELSE RfStepDone("clear",
                            [rf EXCEPT !.table = [commit(rf.table, rf.pending) EXCEPT ![f] = {}],
                                       !.pending = {}])
    /\ UNCHANGED <<analysis_vars, ph, ac, up, dash>>

\* line 103, upload_to_database: build the rows, executemany INSERT,
\* conn.commit(). It can raise before any row is sent, on the client after
\* some rows were sent (they stay in the open transaction), or on the server
\* (the transaction has failed)
RfUpload ==
    /\ rf # NoRun
    /\ rf.pc = "upload"
    /\ \E fault \in {"none", "before", "client_midway", "server"} :
          LET f == Head(rf.todo)
              rows == IF rf.returns = NoFrame THEN {} ELSE rf.returns.rows
              sent == {<<f, d>> : d \in {x \in rows : \A y \in rows : x <= y}}
          IN rf' = IF rf.returns = NoFrame THEN RfStepFailed("upload", rf)
                   ELSE IF rf.tx_failed THEN RfStepFailed("upload", rf)
                   ELSE IF fault = "none"
                   THEN RfStepDone("upload",
                            [rf EXCEPT !.table = commit(rf.table,
                                                        rf.pending \cup ({f} \X rows)),
                                       !.pending = {}])
                   ELSE RfStepFailed("upload",
                            [rf EXCEPT !.injected = @ \cup {f},
                                       !.pending = IF fault = "client_midway"
                                                   THEN @ \cup sent ELSE @,
                                       !.tx_failed = (fault = "server")])
    /\ UNCHANGED <<analysis_vars, ph, ac, up, dash>>

\* lines 113-117
RfFinish ==
    /\ rf # NoRun
    /\ rf.pc = "finish"
    /\ rf' = [rf EXCEPT !.pc = "done", !.response = [statusCode |-> 200]]
    /\ UNCHANGED <<analysis_vars, ph, ac, up, dash>>

NextRefresh ==
    RfConnect \/ RfGetFactors \/ RfFetch \/ RfClean \/ RfClear \/ RfUpload \/ RfFinish

SpecRefresh == InitRefresh /\ [][NextRefresh]_vars

\* ------------------------------------------------------ POST /account (api.py)
Usernames == {"alice", "bob"}

AccountRequests == {"a1", "a2"}

ErrUsernameExists == "Username already exists"
ErrCreateAccount == "Error creating account"

\* check_username_exists: SELECT 1 FROM accounts WHERE username = %s
check_username_exists(accounts, username) ==
    \E k \in DOMAIN accounts : accounts[k].username = username

\* the accounts table holds one seeded account or none; whether the table
\* has a unique constraint on username is the schema's matter, which the
\* repository does not define
InitAccount ==
    /\ NoAnalysis
    /\ ph = NoRun
    /\ rf = NoRun
    /\ ac \in {[accounts |-> seed, unique |-> u,
                req |-> [i \in AccountRequests |->
                            [pc |-> "check", username |-> n[i], response |-> NoResponse]]] :
                  seed \in {<<>>, <<[username |-> "alice", user_id |-> "seed"]>>},
                  u \in BOOLEAN,
                  n \in [AccountRequests -> Usernames]}
    /\ up = NoRun
    /\ dash = NoRun

\* lines 319-320
AcCheck(i) ==
    /\ ac # NoRun
    /\ ac.req[i].pc = "check"
    /\ ac' = IF check_username_exists(ac.accounts, ac.req[i].username)
             THEN [ac EXCEPT !.req[i].pc = "done",
                             !.req[i].response = [code |-> 400, detail |-> ErrUsernameExists]]
             ELSE [ac EXCEPT !.req[i].pc = "insert"]
    /\ UNCHANGED <<analysis_vars, ph, rf, up, dash>>

\* lines 322-359: hash, build the Account, connect, INSERT (autocommit)
AcInsert(i) ==
    /\ ac # NoRun
    /\ ac.req[i].pc = "insert"
    /\ \E raised \in BOOLEAN :
          ac' = IF raised \/ (ac.unique /\ check_username_exists(ac.accounts, ac.req[i].username))
                THEN [ac EXCEPT !.req[i].pc = "done",
                                !.req[i].response = [code |-> 500, detail |-> ErrCreateAccount]]
                ELSE [ac EXCEPT !.req[i].pc = "done",
                                !.req[i].response = [code |-> 200, user_id |-> i,
                                                     username |-> ac.req[i].username],
                                !.accounts = Append(@, [username |-> ac.req[i].username,
                                                        user_id |-> i])]
    /\ UNCHANGED <<analysis_vars, ph, rf, up, dash>>

NextAccount == \E i \in AccountRequests : AcCheck(i) \/ AcInsert(i)

SpecAccount == InitAccount /\ [][NextAccount]_vars

\* ---------------------------------------------------- POST /portfolio (api.py)
ErrNotCsv == "Portfolio file must be a CSV."
ErrEmptyName == "Portfolio name cannot be empty."
ErrReadCsv == "Error reading CSV file"
ErrIllFormatted == "Ill-formatted portfolio. Please use the exact format as the demo_portfolio.csv file."
ErrUploadPortfolio == "Error uploading portfolio"

\* the portfolio_id of this request: uuid4, new to the bucket and the tables
NewPortfolioId == "new"

\* the request ends with an error response
UpFail(code, detail) ==
    [up EXCEPT !.pc = "done", !.response = [code |-> code, detail |-> detail]]

\* the file and the name of the request, and what the bucket and the two
\* tables hold before it
InitUpload ==
    /\ NoAnalysis
    /\ ph = NoRun
    /\ rf = NoRun
    /\ ac = NoRun
    /\ up \in {[pc |-> "check", is_csv |-> c, portfolio_name |-> n, user_id |-> u,
                parses |-> r, well_formed |-> w,
                bucket |-> IF old THEN {"old"} ELSE {},
                portfolios |-> IF old THEN {[portfolio_id |-> "old", user_id |-> "u1",
                                             portfolio_name |-> "growth"]} ELSE {},
                user_portfolios |-> IF old THEN {<<"u1", "old">>} ELSE {},
                response |-> NoResponse] :
                  c \in BOOLEAN, n \in {"", "growth"}, u \in {"u1", "u2"},
                  r \in BOOLEAN, w \in BOOLEAN, old \in BOOLEAN}
    /\ dash = NoRun

\* lines 412-433: the checks before anything is stored
UpCheck ==
    /\ up # NoRun
    /\ up.pc = "check"
    /\ up' = IF ~up.is_csv THEN UpFail(400, ErrNotCsv)
             ELSE IF up.portfolio_name = "" THEN UpFail(400, ErrEmptyName)
             ELSE IF ~up.parses THEN UpFail(500, ErrReadCsv)
             ELSE IF ~up.well_formed THEN UpFail(400, ErrIllFormatted)
             ELSE [up EXCEPT !.pc = "s3"]
    /\ UNCHANGED <<analysis_vars, ph, rf, ac, dash>>

\* lines 441-452, s3.py 60-75: get_s3_connection can raise; upload_fileobj
\* returns the address, or None after a ClientError, and None is turned into
\* an HTTPException that the except clause of line 489 catches
UpS3 ==
    /\ up # NoRun
    /\ up.pc = "s3"
    /\ \E outcome \in {"raised", "none", "address"} :
          up' = IF outcome = "address"
                THEN [up EXCEPT !.pc = "record", !.bucket = @ \cup {NewPortfolioId}]
                ELSE UpFail(500, ErrUploadPortfolio)
    /\ UNCHANGED <<analysis_vars, ph, rf, ac, dash>>

\* lines 456-468: Portfolio(...), model_validate, get_db_connection
UpRecord ==
    /\ up # NoRun
    /\ up.pc = "record"
    /\ \E raised \in BOOLEAN :
          up' = IF raised THEN UpFail(500, ErrUploadPortfolio)
                ELSE [up EXCEPT !.pc = "insert_portfolio"]
    /\ UNCHANGED <<analysis_vars, ph, rf, ac, dash>>

\* lines 469-476: INSERT INTO user_management.portfolios (autocommit)
UpInsertPortfolio ==
    /\ up # NoRun
    /\ up.pc = "insert_portfolio"
    /\ \E raised \in BOOLEAN :
          up' = IF raised THEN UpFail(500, ErrUploadPortfolio)
                ELSE [up EXCEPT !.pc = "insert_mapping",
                                !.portfolios = @ \cup {[portfolio_id |-> NewPortfolioId,
                                                         user_id |-> up.user_id,
                                                         portfolio_name |-> up.portfolio_name]}]
    /\ UNCHANGED <<analysis_vars, ph, rf, ac, dash>>

\* lines 478-487: INSERT INTO user_management.user_portfolios, return
UpInsertMapping ==
    /\ up # NoRun
    /\ up.pc = "insert_mapping"
    /\ \E raised \in BOOLEAN :
          up' = IF raised THEN UpFail(500, ErrUploadPortfolio)
                ELSE [up EXCEPT !.pc = "done",
                                !.user_portfolios = @ \cup {<<up.user_id, NewPortfolioId>>},
                                !.response = [code |-> 200,
                                              portfolio_id |-> NewPortfolioId,
                                              portfolio_name |-> up.portfolio_name]]
    /\ UNCHANGED <<analysis_vars, ph, rf, ac, dash>>

NextUpload == UpCheck \/ UpS3 \/ UpRecord \/ UpInsertPortfolio \/ UpInsertMapping

SpecUpload == InitUpload /\ [][NextUpload]_vars

\* ------------------------------------------------- dashboard: Run Analysis
\* dashboard.py 211-266 (run_factor_analysis, the on_click callback of the
\* "Run Analysis" button) and 38-43 (the session state it reads and writes)

\* how often the button is clicked
MaxRuns == 3

\* analysis_results before any analysis was stored (line 43)
NoResults == "None"

\* bodies of 200 responses of POST /analysis/factor_model
ResultBodies == {"analysis 1", "analysis 2"}

\* what requests.post gives back (lines 247-254): a response, or NoResponse
\* when it raises (timeout, connection error)
PostOutcomes ==
    {[status_code |-> 200, json_ok |-> TRUE, body |-> b] : b \in ResultBodies}
        \cup {[status_code |-> 200, json_ok |-> FALSE, body |-> "not json"]}
        \cup {[status_code |-> c, json_ok |-> TRUE, body |-> "detail"] : c \in {400, 500}}
        \cup {NoResponse}

\* the four ways out of run_factor_analysis
run_path(resp) ==
    IF resp = NoResponse THEN "exception"
    ELSE IF resp.status_code # 200 THEN "error"
    ELSE IF ~resp.json_ok THEN "exception"
    ELSE "success"

\* a finally clause that an exception skips
run_finally_not_on_exception(d, path) ==
    [d EXCEPT !.pc = "done", !.path = path,
              !.analysis_running = IF path = "exception" THEN @ ELSE FALSE]

\* lines 265-266: the finally clause, run on every way out of the try block
run_finally(d, path) ==
    [d EXCEPT !.pc = "done", !.path = path, !.analysis_running = FALSE]

\* lines 38-43: the session state at the first click; before is the
\* analysis_results at the click, path the way the last run ended
InitDash ==
    /\ NoAnalysis
    /\ ph = NoRun
    /\ rf = NoRun
    /\ ac = NoRun
    /\ up = NoRun
    /\ dash \in {[pc |-> "check", runs |-> 1, selected_portfolio_id |-> p,
                  selected_factors |-> f, analysis_running |-> FALSE,
                  analysis_results |-> NoResults, before |-> NoResults,
                  response |-> NoResponse, path |-> "none"] :
                    p \in {"", "p1", "p2"}, f \in {<<>>, <<"MKT">>}}

\* lines 217-225: no selected portfolio, or no selected factor: return
DashCheck ==
    /\ dash # NoRun
    /\ dash.pc = "check"
    /\ dash' = IF dash.selected_portfolio_id = "" \/ dash.selected_factors = <<>>
               THEN run_finally(dash, "early")
               ELSE [dash EXCEPT !.pc = "holdings"]
    /\ UNCHANGED <<analysis_vars, ph, rf, ac, up>>

\* lines 228-244, 97-126: get_portfolio_holdings answers a list and [] after
\* any error; with [] the run returns, otherwise analysis_running is set
DashHoldings ==
    /\ dash # NoRun
    /\ dash.pc = "holdings"
    /\ \E held \in {<<>>, <<"AAPL">>} :
          dash' = IF held = <<>>
                  THEN run_finally(dash, "early")
                  ELSE [dash EXCEPT !.pc = "post", !.analysis_running = TRUE]
    /\ UNCHANGED <<analysis_vars, ph, rf, ac, up>>

\* lines 247-266: the request, response.json() of a 200 response stored at
\* line 258 (it raises on a body that is not JSON), then the finally clause
DashPost ==
    /\ dash # NoRun
    /\ dash.pc = "post"
    /\ \E resp \in PostOutcomes :
          dash' = run_finally(
                      [dash EXCEPT !.response = resp,
                                   !.analysis_results =
                                       IF run_path(resp) = "success"
                                       THEN resp.body ELSE @],
                      run_path(resp))
    /\ UNCHANGED <<analysis_vars, ph, rf, ac, up>>

\* the next click on the button, lines 538-540; the selections are changed
\* by the other callbacks between two clicks
DashClick ==
    /\ dash # NoRun
    /\ dash.pc = "done"
    /\ dash.runs < MaxRuns
    /\ \E p \in {"", "p1", "p2"}, f \in {<<>>, <<"MKT">>} :
          dash' = [dash EXCEPT !.pc = "check", !.runs = @ + 1,
                               !.selected_portfolio_id = p, !.selected_factors = f,
                               !.before = dash.analysis_results,
                               !.response = NoResponse, !.path = "none"]
    /\ UNCHANGED <<analysis_vars, ph, rf, ac, up>>

NextDash == DashCheck \/ DashHoldings \/ DashPost \/ DashClick

SpecDash == InitDash /\ [][NextDash]_vars

\* ===================================================================== claims

\* status code of the response, 0 while the request is running
StatusCode == IF response = NoResponse THEN 0 ELSE response.code

HasAnalysis == response # NoResponse /\ "analysis" \in DOMAIN response

FetchStages == {"fetch_factors", "fetch_assets"}

Count(stage) == Cardinality({i \in DOMAIN calls : calls[i] = stage})

\* C1: no fetch is issued to the factor store or to the market-data feed
\* unless validation has run first and passed in the same request; a request
\* whose validation fails issues zero fetches.
C1_NoFetchBeforeValidation ==
    /\ \A i \in DOMAIN calls :
          calls[i] \in FetchStages =>
              /\ valid = "ok"
              /\ \E j \in 1..(i - 1) : calls[j] = "validate"
    /\ valid \notin {"pending", "ok"} => \A s \in FetchStages : Count(s) = 0

C1_Witness == valid = "ok" /\ Count("fetch_factors") = 1 /\ Count("fetch_assets") = 1

\* C2: validate succeeds if and only if there is at least one factor, at
\* least one holding, at least as many holdings as factors, and the factor
\* identifiers are pairwise distinct.
C2_ValidateIff ==
    valid # "pending" =>
        (valid = "ok" <=>
            /\ Len(factors) >= 1
            /\ Len(holdings) >= 1
            /\ Len(holdings) >= Len(factors)
            /\ \A i, j \in DOMAIN factors : i # j => factors[i] # factors[j])

C2_Witness == valid = "ok" /\ Len(factors) = 2 /\ Len(holdings) = 2

HasDuplicates(f) == \E i, j \in DOMAIN f : i # j /\ f[i] = f[j]

\* C3: a failing validate reports exactly one error, that of the first
\* violated condition in the order empty factors, empty holdings, fewer
\* holdings than factors, duplicate factors; the four errors are pairwise
\* different.
C3_FirstViolatedOnly ==
    /\ Cardinality({ErrNoFactors, ErrNoHoldings, ErrTooFewHoldings, ErrDuplicateFactors}) = 4
    /\ valid # "pending" =>
        /\ valid = ErrNoFactors <=> Len(factors) = 0
        /\ valid = ErrNoHoldings <=> (Len(factors) > 0 /\ Len(holdings) = 0)
        /\ valid = ErrTooFewHoldings <=>
              (Len(factors) > 0 /\ Len(holdings) > 0 /\ Len(holdings) < Len(factors))
        /\ valid = ErrDuplicateFactors <=>
              (Len(factors) > 0 /\ Len(holdings) >= Len(factors) /\ HasDuplicates(factors))
        /\ valid # "ok" => response = [code |-> 400, detail |-> valid]

\* two conditions are violated at once and the earlier one is reported
C3_Witness ==
    /\ valid = ErrTooFewHoldings
    /\ HasDuplicates(factors)
    /\ Len(holdings) > 0

\* C4: the stages of a request run in the strict order store fetch, feed
\* fetch, alignment, estimation, packaging, one after the other, and a
\* successful request has run every one of them.
PipelineOrder == <<"fetch_factors", "fetch_assets", "align", "fit", "package">>

C4_StrictStageOrder ==
    LET run == SubSeq(calls, 2, Len(calls))
    IN /\ Len(run) <= Len(PipelineOrder)
       /\ \A i \in DOMAIN run : run[i] = PipelineOrder[i]
       /\ (pc # "done" /\ Len(calls) >= 1) => pc = PipelineOrder[Len(run) + 1]
       /\ StatusCode = 200 => run = PipelineOrder

C4_Witness == StatusCode = 200 /\ Len(calls) = 6 /\ Len(factor_df.idx) > 1

\* C5: when a stage fails no later stage runs and the request ends with an
\* error response without analysis fields; a success response is returned
\* only when every stage succeeded.
C5_FailureAbortsRequest ==
    /\ failed_stage # "none" =>
          /\ pc = "done"
          /\ calls[Len(calls)] = failed_stage
          /\ StatusCode \in {400, 500}
          /\ ~HasAnalysis
    /\ StatusCode = 200 =>
          /\ failed_stage = "none"
          /\ valid = "ok"
          /\ res # NoResult
          /\ \A s \in Elems(StageOrder) : Count(s) = 1
    /\ pc = "done" => (StatusCode = 200 \/ failed_stage # "none")

C5_Witness == failed_stage = "align" /\ pc = "done" /\ Len(calls) = 4

\* C6: each fetch and the fit are attempted at most once in a request; a
\* failed fetch or fit ends the request.
C6_NoRetry ==
    \A s \in FetchStages \cup {"fit"} :
        /\ Count(s) <= 1
        /\ failed_stage = s => (pc = "done" /\ Count(s) = 1)

C6_Witness == failed_stage = "fetch_assets" /\ pc = "done"

\* the two fetched panels have no date in common
EmptyIntersection == Elems(factor_returns.idx) \cap Elems(portfolio_returns.idx) = {}

\* C7: when the date intersection of the two panels is empty the request
\* ends with an error response, never with a success built on a zero-row fit.
C7_EmptyIntersectionIsError ==
    (Count("fit") = 1 /\ EmptyIntersection) =>
        /\ pc = "done"
        /\ StatusCode = 500
        /\ ~HasAnalysis
        /\ res = NoResult

\* both panels have rows, but on different dates
C7_Witness ==
    /\ Count("fit") = 1
    /\ EmptyIntersection
    /\ Len(factor_returns.idx) > 0
    /\ Len(portfolio_returns.idx) > 0
    /\ factor_returns.cols # {}

\* the kind of error that ended the request, by its cause (spec section 7)
ActualErrorKind ==
    CASE failed_stage = "validate" -> "validation"
      [] failed_stage \in FetchStages -> "upstream"
      [] failed_stage = "fit" /\ EmptyIntersection -> "data_unavailable"
      [] failed_stage = "fit" /\ ~EmptyIntersection -> "numerical"
      [] OTHER -> "internal"

\* the kind a caller reads off the response
ReportedErrorKind(r) ==
    CASE r.code = 400 -> "validation"
      [] r.code = 500 /\ r.detail \in {ErrFetchFactors, ErrFetchPortfolio} -> "upstream"
      [] r.code = 500 /\ r.detail = ErrFit -> "numerical"
      [] OTHER -> "internal"

\* C8: the four error kinds are pairwise distinguishable in the response: a
\* data-unavailable condition is reported differently from a validation
\* error, a numerical fit error and an upstream transport error.
C8_ErrorKindsDistinct ==
    (pc = "done" /\ failed_stage # "none") =>
        ReportedErrorKind(response) = ActualErrorKind

\* the stage a caller reads off an error response
StageOfResponse(r) ==
    CASE r.code = 400 -> "validate"
      [] r.code = 500 /\ r.detail = ErrFetchFactors -> "fetch_factors"
      [] r.code = 500 /\ r.detail = ErrFetchPortfolio -> "fetch_assets"
      [] r.code = 500 /\ r.detail = ErrAlign -> "align"
      [] r.code = 500 /\ r.detail = ErrFit -> "fit"
      [] r.code = 500 /\ r.detail = ErrPackage -> "package"
      [] OTHER -> "unknown"

\* C9: every error response identifies the stage that failed: the failing
\* stage is a function of the response.
C9_StageFromResponse ==
    (pc = "done" /\ StatusCode # 200) =>
        /\ failed_stage # "none"
        /\ StageOfResponse(response) = failed_stage

C9_Witness == pc = "done" /\ failed_stage = "align" /\ response.detail = ErrAlign

\* C10: in get_returns of both providers a column is dropped if and only if
\* its fraction of missing values exceeds null_threshold; a fraction equal to
\* the threshold keeps the column.
C10_DropIffExceeds ==
    mdp_call # NoCall =>
        \A c \in mdp_call.raw.cols :
            c \notin mdp_ret.cols <=>
                null_count(mdp_call.raw, c) * mdp_call.null_threshold[2]
                    > mdp_call.null_threshold[1] * Len(mdp_call.raw.idx)

\* the panel the last direct call cleaned, and its threshold
Raw == mdp_call.raw

\* column c fails the filter of the claims: its missing fraction is not
\* below the threshold (a zero-row column has no fraction and fails)
Sparse(c) ==
    ~(null_count(Raw, c) * mdp_call.null_threshold[2]
          < mdp_call.null_threshold[1] * Len(Raw.idx))

\* C11: the panel get_returns returns contains no missing value: every
\* retained column has a value at every retained date.
C11_NoMissingValue ==
    mdp_call # NoCall =>
        /\ mdp_ret.nan = {}
        /\ mdp_ret.cols \subseteq Raw.cols
        /\ Elems(mdp_ret.idx) \subseteq Elems(Raw.idx)
        /\ \A d \in Elems(mdp_ret.idx) : \A c \in mdp_ret.cols : <<d, c>> \notin Raw.nan

\* a retained column had missing values, and rows are left
C11_Witness ==
    /\ mdp_call # NoCall
    /\ Len(mdp_ret.idx) > 0
    /\ \E c \in mdp_ret.cols : null_count(Raw, c) > 0

\* C12: cleaning filters the columns first: a date is removed if and only
\* if it has a missing value in a column that survived the column filter; a
\* missing value in a dropped column never removes a date.
C12_ColumnsFirst ==
    mdp_call # NoCall =>
        \A d \in Elems(Raw.idx) :
            d \notin Elems(mdp_ret.idx) <=> \E c \in mdp_ret.cols : <<d, c>> \in Raw.nan

\* a retained date is missing in a dropped column, next to a surviving column
C12_Witness ==
    /\ mdp_call # NoCall
    /\ mdp_call.provider = "DatabaseMDP"
    /\ mdp_ret.cols # {}
    /\ \E d \in Elems(mdp_ret.idx) : \E c \in Raw.cols \ mdp_ret.cols : <<d, c>> \in Raw.nan

\* C13: when the query yields zero rows, or every identifier column is
\* dropped by the null-threshold filter, get_returns returns an empty panel
\* (no column, no cell) as its normal result.
C13_EmptyPanelReturned ==
    mdp_call # NoCall =>
        /\ Len(Raw.idx) = 0 => (mdp_ret.cols = {} /\ mdp_ret.idx = <<>> /\ mdp_ret.nan = {})
        /\ (\A c \in Raw.cols : Sparse(c)) => (mdp_ret.cols = {} /\ mdp_ret.nan = {})

\* every column of a panel with rows is dropped, one row being complete
C13_Witness ==
    /\ mdp_call # NoCall
    /\ Cardinality(Raw.cols) = 2
    /\ \A c \in Raw.cols : Sparse(c)
    /\ \E d \in Elems(Raw.idx) : \A c \in Raw.cols : <<d, c>> \notin Raw.nan
    /\ mdp_ret.cols = {}

\* C14: both providers apply the same cleaning: on the same raw return panel
\* and the same null_threshold they retain the same columns and dates.
C14_SameCleaning ==
    mdp_call # NoCall =>
        /\ mdp_ret = DatabaseMDP_get_returns(Raw, mdp_call.null_threshold)
        /\ mdp_ret = YahooFinanceMDP_clean(Raw, mdp_call.null_threshold)

\* a call in which a column and a date were dropped and something is left
C14_Witness ==
    /\ mdp_call # NoCall
    /\ mdp_call.provider = "DatabaseMDP"
    /\ Raw.cols \ mdp_ret.cols # {}
    /\ mdp_ret.cols # {}
    /\ Len(mdp_ret.idx) > 0
    /\ Len(mdp_ret.idx) < Len(Raw.idx)

\* ------------------------------------------------------------ claims on align_data
AlFactor == al_call.factor

AlAsset == al_call.asset

CalendarDates(p) == {to_date(x) : x \in Elems(p.idx)}

CommonDates == Elems(AlFactor.idx) \cap Elems(AlAsset.idx)

IsAscending(q) == \A i, j \in DOMAIN q : i < j => q[i] < q[j]

\* the rows of p in ascending date order
SortRows(p) == [cols |-> p.cols, idx |-> SortedSeq(Elems(p.idx)), nan |-> p.nan]

\* the position of calendar date d in the index q
RowOf(q, d) == CHOOSE k \in DOMAIN q : to_date(q[k]) = d

\* the panel as a set of rows: what it holds when the row order is forgotten
RowSet(p) == [cols |-> p.cols, dates |-> Elems(p.idx), nan |-> p.nan]

\* C15: on duplicate-free indices align_data returns two panels whose indices
\* are identical to each other, hold exactly the dates of the set intersection
\* of the two input indices, each once, and so have the same number of rows
C15_IndicesAreIntersection ==
    al_call # NoCall =>
        /\ al_ret[1].idx = al_ret[2].idx
        /\ Len(al_ret[1].idx) = Len(al_ret[2].idx)
        /\ CalendarDates(al_ret[1]) = CommonDates
        /\ CalendarDates(al_ret[2]) = CommonDates
        /\ Len(al_ret[1].idx) = Cardinality(CommonDates)

C15_Witness ==
    /\ al_call # NoCall
    /\ Cardinality(CommonDates) = 2
    /\ Elems(AlFactor.idx) \ Elems(AlAsset.idx) # {}
    /\ ~IsAscending(AlAsset.idx)
    /\ Len(al_ret[1].idx) = 2
    /\ Len(al_ret[2].idx) = 2

\* C16 as stated: whatever the row order of the inputs, both returned panels
\* are sorted ascending by date and the result is the one the sorted inputs give
C16_SortedAscending ==
    al_call # NoCall =>
        /\ IsAscending(al_ret[1].idx)
        /\ IsAscending(al_ret[2].idx)
        /\ al_ret = align_data(SortRows(AlFactor), SortRows(AlAsset))

\* C16 amended: both returned panels hold the common dates in the row order
\* of the factor panel's index, so they are ascending whenever the factor panel
\* is; the dates, columns and cells returned do not depend on the row order of
\* either input
C16_FactorOrderKept ==
    al_call # NoCall =>
        /\ \A k \in 1..2 : \A i, j \in DOMAIN al_ret[k].idx :
              i < j => RowOf(AlFactor.idx, to_date(al_ret[k].idx[i]))
                         < RowOf(AlFactor.idx, to_date(al_ret[k].idx[j]))
        /\ IsAscending(AlFactor.idx) =>
              (IsAscending(al_ret[1].idx) /\ IsAscending(al_ret[2].idx))
        /\ \A k \in 1..2 :
              RowSet(al_ret[k]) = RowSet(align_data(SortRows(AlFactor), SortRows(AlAsset))[k])

C16_Witness ==
    /\ al_call # NoCall
    /\ Cardinality(CommonDates) >= 2
    /\ IsAscending(AlFactor.idx)
    /\ ~IsAscending(AlAsset.idx)
    /\ IsAscending(al_ret[2].idx)
    /\ Len(al_ret[2].idx) >= 2

\* C17: align_data neither synthesizes nor alters data: every date of either
\* returned panel is a date of both inputs, each returned panel has the columns
\* of its input, and each of its cells is missing exactly when the input's cell
\* of that date and column is
C17_NothingSynthesized ==
    al_call # NoCall =>
        \A k \in 1..2 :
            LET in == IF k = 1 THEN AlFactor ELSE AlAsset
                out == al_ret[k]
            IN /\ CalendarDates(out) \subseteq CommonDates
               /\ out.cols = in.cols
               /\ \A x \in Elems(out.idx) : \A c \in out.cols :
                     <<x, c>> \in out.nan <=> <<to_date(x), c>> \in in.nan
               /\ \A x \in out.nan : x[1] \in Elems(out.idx) /\ x[2] \in out.cols

C17_Witness ==
    /\ al_call # NoCall
    /\ al_ret[1].nan # {}
    /\ al_ret[2].nan = {}
    /\ AlAsset.nan # {}
    /\ Len(al_ret[1].idx) >= 1
    /\ Len(al_ret[1].idx) < Len(AlFactor.idx)

\* C18: two panels with the same dates in the same row order come back with
\* the same calendar dates, cells and row order, and aligning the result of an
\* alignment returns that result
C18_Idempotent ==
    al_call # NoCall =>
        /\ AlFactor.idx = AlAsset.idx =>
              \A k \in 1..2 :
                  LET in == IF k = 1 THEN AlFactor ELSE AlAsset
                      out == al_ret[k]
                  IN /\ [i \in DOMAIN out.idx |-> to_date(out.idx[i])] = in.idx
                     /\ out.cols = in.cols
                     /\ {<<to_date(x[1]), x[2]>> : x \in out.nan} = in.nan
        /\ al_again = al_ret

C18_Witness ==
    /\ al_call # NoCall
    /\ AlFactor.idx = AlAsset.idx
    /\ Len(AlFactor.idx) >= 2
    /\ ~IsAscending(AlFactor.idx)
    /\ AlFactor.nan # {}
    /\ al_again = al_ret
    /\ Len(al_again[1].idx) >= 2

\* ------------------------------------------------- claims on concurrent requests
\* the response of a request with factors f and holdings h served alone
RunAlone(f, h) ==
    LET v == validate_factor_model(f, h)
        factor_ret == DatabaseMDP_get_returns(select_returns(source.store, Elems(f)),
                                              NullThreshold)
        portfolio_ret == YahooFinanceMDP_get_returns(
                             download_close(source.feed, Elems(h)), FALSE, NullThreshold)
        aligned == align_data(factor_ret, portfolio_ret)
        raised == LinearFactorModel_raises(aligned[2], aligned[1],
                                           numeric_failure_of(aligned[2], aligned[1], source))
    IN IF v # "ok" THEN error_response("validate", v)
       ELSE IF raised THEN error_response("fit", "")
       ELSE success_response(LinearFactorModel_fit(aligned[2], aligned[1]), aligned[1])

\* C19: in every interleaving of two requests over the same source data each
\* request ends with the response it gets when served alone, no request holds
\* the connection of another, and the panels a request holds are those of
\* its own factors and holdings
C19_NoSharedState ==
    source # NoSource =>
        /\ \A i \in Requests :
              rq[i].pc = "done" => rq[i].response = RunAlone(rq[i].factors, rq[i].holdings)
        /\ \A i, j \in Requests :
              (i # j /\ rq[i].db # NoConn) => rq[i].db # rq[j].db
        /\ \A i \in Requests :
              /\ rq[i].factor_returns.cols \subseteq Elems(rq[i].factors)
              /\ rq[i].portfolio_returns.cols \subseteq Elems(rq[i].holdings)

C19_Witness ==
    /\ source # NoSource
    /\ \A i \in Requests : rq[i].pc = "done" /\ rq[i].response.code = 200
    /\ rq["r1"].factors # rq["r2"].factors
    /\ rq["r1"].holdings # rq["r2"].holdings
    /\ rq["r1"].response # rq["r2"].response
    /\ opened = 2

\* C20: a validation step changes nothing but the validating request's own
\* outcome: the two lists it was given, every panel, the source data, the
\* cursors and the number of connections (no fetch) are as before, every
\* other request is untouched, and two validations of equal lists have equal
\* outcomes whatever the rest of the state is
C20_ValidatePure ==
    [][\A i \in Requests :
          (source # NoSource /\ rq[i].pc = "validate" /\ rq'[i].pc # "validate") =>
              /\ rq'[i].factors = rq[i].factors
              /\ rq'[i].holdings = rq[i].holdings
              /\ rq'[i].db = rq[i].db
              /\ rq'[i].factor_returns = rq[i].factor_returns
              /\ rq'[i].portfolio_returns = rq[i].portfolio_returns
              /\ rq'[i].factor_df = rq[i].factor_df
              /\ rq'[i].portfolio_df = rq[i].portfolio_df
              /\ rq'[i].res = rq[i].res
              /\ \A j \in Requests \ {i} : rq'[j] = rq[j]
              /\ source' = source
              /\ cursor' = cursor
              /\ opened' = opened
              /\ \A j \in Requests :
                    (/\ rq'[j].valid # "pending"
                     /\ rq'[j].factors = rq'[i].factors
                     /\ rq'[j].holdings = rq'[i].holdings)
                        => rq'[j].valid = rq'[i].valid]_vars

C20_Witness ==
    /\ source # NoSource
    /\ rq["r1"].pc = "fetchall"
    /\ cursor[rq["r1"].db] # EmptyPanel
    /\ rq["r2"].valid = ErrDuplicateFactors
    /\ Len(rq["r2"].factors) = 2
    /\ rq["r2"].db = NoConn

\* ------------------------------------------------ claims on the fit and the response
\* C21: a success response has the keys statistics (no_factors, no_assets,
\* no_observations, r_squared, j_statistic), covariance_matrix, params,
\* risk_premia and timestamp, and its counts are those of the panels fitted:
\* the aligned dates, the factor columns and the asset columns
C21_ResponseDescribesFit ==
    StatusCode = 200 =>
        /\ DOMAIN response.analysis =
              {"statistics", "covariance_matrix", "params", "risk_premia", "timestamp"}
        /\ DOMAIN response.analysis.statistics =
              {"no_factors", "no_assets", "no_observations", "r_squared", "j_statistic"}
        /\ response.analysis.statistics.no_observations = Len(factor_df.idx)
        /\ response.analysis.statistics.no_observations = Len(portfolio_df.idx)
        /\ response.analysis.statistics.no_factors = Cardinality(factor_df.cols)
        /\ response.analysis.statistics.no_assets = Cardinality(portfolio_df.cols)

C21_Witness ==
    /\ StatusCode = 200
    /\ response.analysis.statistics.no_factors = 1
    /\ response.analysis.statistics.no_assets = 2
    /\ response.analysis.statistics.no_observations = MaxDates - 1
    /\ Len(factor_returns.idx) > Len(factor_df.idx)

\* C23: whenever the estimator is about to be invoked, the asset panel has at
\* least as many columns as the factor panel
C23_IdentifiedAtFit ==
    pc = "fit" => Cardinality(portfolio_df.cols) >= Cardinality(factor_df.cols)

\* the aligned factor panel of request i is rank-deficient: fewer observations
\* than parameters (the factors and the intercept), or both collinear factors
RankDeficient(i) ==
    \/ Len(rq[i].factor_df.idx) < Cardinality(rq[i].factor_df.cols) + 1
    \/ source.collinear /\ FactorIds \subseteq rq[i].factor_df.cols

\* C22: a request whose aligned input is rank-deficient ends at the fit stage
\* with the fit error; it has no result object and no success response
C22_RankDeficientFails ==
    source # NoSource =>
        \A i \in Requests :
            (rq[i].valid = "ok" /\ rq[i].pc \in {"package", "done"} /\ RankDeficient(i)) =>
                /\ rq[i].pc = "done"
                /\ rq[i].response = [code |-> 500, detail |-> ErrFit]
                /\ rq[i].res = NoResult

C22_Witness ==
    /\ source # NoSource
    /\ source.collinear
    /\ rq["r1"].pc = "done"
    /\ Cardinality(rq["r1"].factor_df.cols) = 2
    /\ Cardinality(rq["r1"].portfolio_df.cols) = 2
    /\ Len(rq["r1"].factor_df.idx) = MaxDates - 1
    /\ rq["r1"].response = [code |-> 500, detail |-> ErrFit]
    /\ rq["r2"].pc = "done"
    /\ Cardinality(rq["r2"].factor_df.cols) = 1
    /\ rq["r2"].response.code = 200

\* ------------------------------------------------ claims on the other endpoints
\* C24: when get_portfolio_df returned None, GET /portfolio/holdings answers
\* 404 "Portfolio not found"
C24_NotFoundIs404 ==
    (ph # NoRun /\ ph.pc = "done" /\ ph.df = NoFrame) =>
        ph.response = [code |-> 404, detail |-> ErrPortfolioNotFound]

\* C25: after the run every factor's stored rows are the rows it had before
\* the run or the complete newly fetched set
C25_OldOrNewRows ==
    (rf # NoRun /\ rf.pc = "done") =>
        \A f \in FactorIds : rf.table[f] = rf.before[f] \/ rf.table[f] = rf.feed[f]

\* C26: a factor whose own statements did not fail is fetched, cleared and
\* uploaded whatever happened to the factors before it
C26_LaterFactorsProcessed ==
    (rf # NoRun /\ rf.pc = "done" /\ rf.response.statusCode = 200) =>
        \A f \in Elems(rf.listed) :
            f \notin rf.injected =>
                (rf.progress[f] = "upload" /\ rf.table[f] = rf.feed[f])

\* C27: the stored rows of a factor differ from those before the run only
\* once its new data has been fetched and cleaned, and a factor whose fetch or
\* clean failed has the rows it had
C27_ClearAfterClean ==
    rf # NoRun =>
        \A f \in FactorIds :
            /\ rf.table[f] # rf.before[f] =>
                  (rf.failed[f] \notin {"fetch", "clean"} /\ rf.progress[f] \in {"clear", "upload"})
            /\ rf.failed[f] \in {"fetch", "clean"} => rf.table[f] = rf.before[f]

C27_Witness ==
    /\ rf # NoRun
    /\ rf.pc = "done"
    /\ rf.listed = <<"MKT", "SMB">>
    /\ rf.failed["MKT"] = "clean"
    /\ rf.before["MKT"] = OldRows
    /\ rf.table["MKT"] = OldRows
    /\ rf.feed["MKT"] = NewRows
    /\ rf.progress["SMB"] = "upload"
    /\ rf.table["SMB"] = NewRows

\* C28: no two stored accounts have the same username, and a request for a
\* username that was stored, by the seed or by the other request, before the
\* request could store it was answered 400 and inserted nothing
C28_UsernamesUnique ==
    ac # NoRun =>
        /\ \A j, k \in DOMAIN ac.accounts :
              j # k => ac.accounts[j].username # ac.accounts[k].username
        /\ \A i \in AccountRequests :
              (/\ ac.req[i].pc = "done"
               /\ \E k \in DOMAIN ac.accounts :
                     /\ ac.accounts[k].username = ac.req[i].username
                     /\ ac.accounts[k].user_id # i
                     /\ \A j \in DOMAIN ac.accounts : ac.accounts[j].user_id = i => k < j)
                 => /\ ac.req[i].response = [code |-> 400, detail |-> ErrUsernameExists]
                    /\ \A j \in DOMAIN ac.accounts : ac.accounts[j].user_id # i

\* C29: after an error response none of the S3 object, the portfolios row and
\* the user_portfolios row of the request exists; after success all three do
C29_AllOrNothing ==
    (up # NoRun /\ up.pc = "done") =>
        IF up.response.code = 200
        THEN /\ NewPortfolioId \in up.bucket
             /\ \E row \in up.portfolios : row.portfolio_id = NewPortfolioId
             /\ <<up.user_id, NewPortfolioId>> \in up.user_portfolios
        ELSE /\ NewPortfolioId \notin up.bucket
             /\ \A row \in up.portfolios : row.portfolio_id # NewPortfolioId
             /\ \A row \in up.user_portfolios : row[2] # NewPortfolioId

\* C30: whenever run_factor_analysis has returned, on each of its paths,
\* analysis_running is false, and analysis_results differ from what they were
\* at the click only after a 200 response, whose body they then are
C30_FlagClearedResultsKept ==
    (dash # NoRun /\ dash.pc = "done") =>
        /\ dash.path \in {"early", "success", "error", "exception"}
        /\ ~dash.analysis_running
        /\ IF dash.path = "success"
           THEN /\ dash.response.status_code = 200
                /\ dash.analysis_results = dash.response.body
           ELSE dash.analysis_results = dash.before

\* a second run that ended with an exception after analysis_running was set,
\* with the results of the first run still stored
C30_Witness ==
    /\ dash # NoRun
    /\ dash.pc = "done"
    /\ dash.path = "exception"
    /\ dash.response = NoResponse
    /\ dash.before \in ResultBodies
    /\ dash.analysis_results = dash.before

====
